---------------------------- MODULE Spec2Model ----------------------------
(***************************************************************************)
(* A model of the policy layer of the polling application: the sanitizer   *)
(* and validators of src/lib/security.ts, the fixed-window rate limiter    *)
(* of the same file, the server actions of                                 *)
(* src/app/lib/actions/poll-actions.ts and the tables the README's SQL     *)
(* sets up for them.                                                       *)
(*                                                                         *)
(* A JavaScript string is a sequence of one-character strings.  A value    *)
(* that reaches a server action from the outside is a record [t, v]: t is  *)
(* what typeof and truthiness need to tell apart ("string", "null",        *)
(* "object"), v the characters of a string.                                *)
(***************************************************************************)
EXTENDS Integers, Sequences, FiniteSets, TLC

(***************************************************************************)
(* Characters                                                              *)
(***************************************************************************)
LowerCase ==
    <<"a","b","c","d","e","f","g","h","i","j","k","l","m",
      "n","o","p","q","r","s","t","u","v","w","x","y","z">>

UpperCase ==
    <<"A","B","C","D","E","F","G","H","I","J","K","L","M",
      "N","O","P","Q","R","S","T","U","V","W","X","Y","Z">>

Digits == {"0","1","2","3","4","5","6","7","8","9"}

Range(f) == {f[i] : i \in DOMAIN f}

\* the i flag of a regular expression: compare characters in lower case
UpperLetters == Range(UpperCase)

ToLower(c) ==
    IF c \in UpperLetters
    THEN LowerCase[CHOOSE i \in DOMAIN UpperCase : UpperCase[i] = c]
    ELSE c

\* \w of a regular expression
WordChar == Range(LowerCase) \cup Range(UpperCase) \cup Digits \cup {"_"}

\* what String.prototype.trim removes (the characters of it the model uses)
WhiteSpace == {" ", "\t", "\n", "\r"}

\* n copies of the character c
Rep(c, n) == [i \in 1..n |-> c]

(***************************************************************************)
(* Values from the outside                                                 *)
(***************************************************************************)
Str(s) == [t |-> "string", v |-> s]

NullValue == [t |-> "null", v |-> <<>>]

FileValue == [t |-> "object", v |-> <<>>]

\* JavaScript truthiness: null and the empty string are falsy, an object is not
Truthy(x) == IF x.t = "string" THEN Len(x.v) > 0 ELSE x.t = "object"

(***************************************************************************)
(* sanitizeInput                                                           *)
(***************************************************************************)
\* the first position at or after i that holds no white space (Len(s) + 1
\* when there is none)
RECURSIVE TrimStart(_, _)
TrimStart(s, i) ==
    IF i <= Len(s) /\ s[i] \in WhiteSpace THEN TrimStart(s, i + 1) ELSE i

\* the last position at or before i that holds no white space (0 when there
\* is none)
RECURSIVE TrimEnd(_, _)
TrimEnd(s, i) ==
    IF i >= 1 /\ s[i] \in WhiteSpace THEN TrimEnd(s, i - 1) ELSE i

\* String.prototype.trim
Trim(s) == SubSeq(s, TrimStart(s, 1), TrimEnd(s, Len(s)))

\* .replace(/[<>]/g, '')
\* As IsNotAngle, for a pattern that names only "<"
IsNotLessThan(c) == c # "<"

IsNotAngle(c) == c \notin {"<", ">"}

RemoveAngle(s) == SelectSeq(s, IsNotAngle)

JavascriptScheme == <<"j","a","v","a","s","c","r","i","p","t",":">>

\* /javascript:/i matches at position i of s
JsAt(s, i) ==
    /\ i + Len(JavascriptScheme) - 1 <= Len(s)
    /\ \A k \in 1..Len(JavascriptScheme) : ToLower(s[i + k - 1]) = JavascriptScheme[k]

\* the least element of a non-empty set of numbers
Min(S) == CHOOSE m \in S : \A k \in S : m <= k

\* .replace(/javascript:/gi, ''): one pass from the left.  The text up to the
\* leftmost match at or after position i is kept, the match is dropped and
\* the scan resumes behind it: it never looks at the text a removal has joined
RECURSIVE RemoveJsFrom(_, _)
RemoveJsFrom(s, i) ==
    LET found == {m \in i..Len(s) : JsAt(s, m)}
    IN  IF found = {} THEN SubSeq(s, i, Len(s))
        ELSE SubSeq(s, i, Min(found) - 1)
                 \o RemoveJsFrom(s, Min(found) + Len(JavascriptScheme))

RemoveJavascript(s) == RemoveJsFrom(s, 1)

\* the end of the longest run of word characters that starts at position i
\* (i - 1 when s[i] is no word character)
WordRunEnd(s, i) ==
    LET stop == {j \in i..Len(s) : s[j] \notin WordChar}
    IN  IF stop = {} THEN Len(s) ELSE Min(stop) - 1

\* /on\w+=/i matches at position i of s: 0 when it does not, else the position
\* of the "=" that ends the match.  \w+ is greedy and "=" is no word
\* character, so the match is "on", the whole run of word characters after
\* it (one at least), and the "=" right behind the run.
OnAt(s, i) ==
    IF /\ i + 3 <= Len(s)
       /\ ToLower(s[i]) = "o"
       /\ ToLower(s[i + 1]) = "n"
       /\ s[i + 2] \in WordChar
    THEN LET e == WordRunEnd(s, i + 2)
         IN  IF e + 1 <= Len(s) /\ s[e + 1] = "=" THEN e + 1 ELSE 0
    ELSE 0

\* .replace(/on\w+=/gi, ''): one pass from the left, as above
RECURSIVE RemoveOnFrom(_, _)
RemoveOnFrom(s, i) ==
    LET found == {m \in i..Len(s) : OnAt(s, m) > 0}
    IN  IF found = {} THEN SubSeq(s, i, Len(s))
        ELSE SubSeq(s, i, Min(found) - 1)
                 \o RemoveOnFrom(s, OnAt(s, Min(found)) + 1)

RemoveEventHandlers(s) == RemoveOnFrom(s, 1)

SanitizeMaxLen == 1000

\* .substring(0, n)
Substring0(s, n) == IF Len(s) > n THEN SubSeq(s, 1, n) ELSE s

sanitizeInput(input) ==
    IF input.t # "string" THEN <<>>
    ELSE Substring0(RemoveEventHandlers(RemoveJavascript(RemoveAngle(Trim(input.v)))),
                    SanitizeMaxLen)

(***************************************************************************)
(* Validators                                                              *)
(***************************************************************************)
PollIdMaxLen == 50

\* /^[a-zA-Z0-9_-]+$/
PollIdChar == WordChar \cup {"-"}

\* As isValidPollId, for a test of the length that stops below the maximum
isValidPollIdShort(pollId) ==
    /\ pollId.t = "string"
    /\ Len(pollId.v) > 0
    /\ Len(pollId.v) < PollIdMaxLen
    /\ \A i \in 1..Len(pollId.v) : pollId.v[i] \in PollIdChar

isValidPollId(pollId) ==
    /\ pollId.t = "string"
    /\ Len(pollId.v) > 0
    /\ Len(pollId.v) <= PollIdMaxLen
    /\ \A i \in 1..Len(pollId.v) : pollId.v[i] \in PollIdChar

\* A number from the outside is [t, int, v]: the integer v when int holds,
\* and a number that is no integer (v + 1/2, NaN) when it does not.
NumberValue(n) == [t |-> "number", int |-> TRUE, v |-> n]

FractionValue(n) == [t |-> "number", int |-> FALSE, v |-> n]

NotANumber == [t |-> "string", int |-> FALSE, v |-> 0]

\* As isValidOptionIndex, for an index counted from 1
isValidOptionIndexFromOne(index, maxOptions) ==
    /\ index.t = "number"
    /\ index.int
    /\ index.v >= 1
    /\ index.v <= maxOptions

\* As isValidOptionIndex, without the test against maxOptions
isValidOptionIndexNoCeiling(index, maxOptions) ==
    /\ index.t = "number"
    /\ index.int
    /\ index.v >= 0

\* As isValidOptionIndex, with the index that equals maxOptions let through
isValidOptionIndexInclusive(index, maxOptions) ==
    /\ index.t = "number"
    /\ index.int
    /\ index.v >= 0
    /\ index.v <= maxOptions

isValidOptionIndex(index, maxOptions) ==
    /\ index.t = "number"
    /\ index.int
    /\ index.v >= 0
    /\ index.v < maxOptions

(***************************************************************************)
(* The rate limiter: lib/rate-limit.ts, the second half of security.ts     *)
(***************************************************************************)
defaultConfig == [windowMs |-> 15 * 60 * 1000, maxRequests |-> 100]

RATE_LIMITS ==
    [VOTE        |-> [windowMs |-> 60 * 1000,      maxRequests |-> 5],
     CREATE_POLL |-> [windowMs |-> 60 * 60 * 1000, maxRequests |-> 10],
     GENERAL     |-> [windowMs |-> 15 * 60 * 1000, maxRequests |-> 100]]

\* { ...defaultConfig, ...config }
MergeConfig(config) ==
    [k \in DOMAIN defaultConfig |->
        IF k \in DOMAIN config THEN config[k] ELSE defaultConfig[k]]

\* As RateLimitKey, for a key that leaves the user id out
RateLimitKeyOfAll(userId, ip) == <<"ip:", ip>>

\* userId ? `user:${userId}` : `ip:${ip}` (the empty string is falsy)
RateLimitKey(userId, ip) ==
    IF userId # "" THEN <<"user:", userId>> ELSE <<"ip:", ip>>

\* As CurrentWindow, for an expiry test that takes the reset instant itself
\* as past the window (now >= resetTime)
CurrentWindowEndsEarly(store, t, key, finalConfig) ==
    IF key \notin DOMAIN store \/ t >= store[key].resetTime
    THEN [count |-> 0, resetTime |-> t + finalConfig.windowMs]
    ELSE store[key]

\* The window of the key after the expiry test of checkRateLimit
CurrentWindow(store, t, key, finalConfig) ==
    IF key \notin DOMAIN store \/ t > store[key].resetTime
    THEN [count |-> 0, resetTime |-> t + finalConfig.windowMs]
    ELSE store[key]

\* Put an entry into a map
MapSet(m, k, val) == [j \in DOMAIN m \cup {k} |-> IF j = k THEN val ELSE m[j]]

\* As checkRateLimit, for a call that counts the requests it refuses
checkRateLimitCountsRefused(store, t, userId, ip, config) ==
    LET finalConfig == MergeConfig(config)
        key    == RateLimitKey(userId, ip)
        data   == CurrentWindow(store, t, key, finalConfig)
        count  == MapSet(store, key, [data EXCEPT !.count = data.count + 1])
    IN  IF data.count >= finalConfig.maxRequests
        THEN [store     |-> count,
              allowed   |-> FALSE,
              remaining |-> 0,
              resetTime |-> data.resetTime]
        ELSE [store     |-> count,
              allowed   |-> TRUE,
              remaining |-> finalConfig.maxRequests - (data.count + 1),
              resetTime |-> data.resetTime]

\* As checkRateLimit, for a call that allows without writing its increment
checkRateLimitUncounted(store, t, userId, ip, config) ==
    LET finalConfig == MergeConfig(config)
        key    == RateLimitKey(userId, ip)
        data   == CurrentWindow(store, t, key, finalConfig)
        reset  == MapSet(store, key, data)
    IN  IF data.count >= finalConfig.maxRequests
        THEN [store     |-> reset,
              allowed   |-> FALSE,
              remaining |-> 0,
              resetTime |-> data.resetTime]
        ELSE [store     |-> reset,
              allowed   |-> TRUE,
              remaining |-> finalConfig.maxRequests - (data.count + 1),
              resetTime |-> data.resetTime]

\* checkRateLimit on the map `store` at time t: the map it leaves and the
\* result it returns.  The function holds no await, so it runs as one step.
checkRateLimit(store, t, userId, ip, config) ==
    LET finalConfig == MergeConfig(config)
        key    == RateLimitKey(userId, ip)
        data   == CurrentWindow(store, t, key, finalConfig)
        reset  == MapSet(store, key, data)
    IN  IF data.count >= finalConfig.maxRequests
        THEN [store     |-> reset,
              allowed   |-> FALSE,
              remaining |-> 0,
              resetTime |-> data.resetTime]
        ELSE [store     |-> MapSet(store, key,
                                   [data EXCEPT !.count = data.count + 1]),
              allowed   |-> TRUE,
              remaining |-> finalConfig.maxRequests - (data.count + 1),
              resetTime |-> data.resetTime]

\* As CleanupExpired, for a sweep that takes the reset instant itself as
\* past the window (now >= resetTime)
CleanupExpiredAtReset(store, t) ==
    [k \in {j \in DOMAIN store : ~(t >= store[j].resetTime)} |-> store[k]]

\* the body of the setInterval callback: drop the windows that have expired
CleanupExpired(store, t) ==
    [k \in {j \in DOMAIN store : ~(t > store[j].resetTime)} |-> store[k]]

(***************************************************************************)
(* State                                                                   *)
(***************************************************************************)
VARIABLES
    polls,           \* the polls table: poll id -> row
    votes,           \* the votes table: a bag of rows (the row ids are left out)
    nextPoll,        \* how many poll ids the Store has generated
    rateLimitStore,  \* the Map of security.ts: key -> [count, resetTime]
    now,             \* Date.now()
    calls,           \* the submitVote calls in flight, one per slot
    last,            \* the call that returned in the last step, with its result
    history          \* what the properties remember of the calls so far: Events

vars == <<polls, votes, nextPoll, rateLimitStore, now, calls, last, history>>

(***************************************************************************)
(* Sessions: what supabase.auth.getUser() answers for the caller           *)
(***************************************************************************)
NoUser == "null"

UserSession(u) == [user |-> u, error |-> FALSE]

AnonymousSession == [user |-> NoUser, error |-> FALSE]

\* getUser itself fails: no user, and an error
FailedSession == [user |-> NoUser, error |-> TRUE]

(***************************************************************************)
(* Results                                                                 *)
(***************************************************************************)
NoError == "null"

\* return { error }
Return(e) == [kind |-> "return", error |-> e, at |-> 0]

\* throw new Error(e), about option number i
Throw(e, i) == [kind |-> "throw", error |-> e, at |-> i]

\* The messages of errors that come from outside: of getUser, and of the Store
\* for a request it does not carry out (it cannot be reached, it refuses the
\* caller or a value of the request), for a row that fails a CHECK and for a
\* row that fails a REFERENCES
AuthErrorText      == "auth: getUser failed"
StoreFaultText     == "store: request failed"
StoreCheckText     == "store: new row violates check constraint"
StoreForeignText   == "store: violates foreign key constraint"

QuestionRequired   == "Question is required"
QuestionTooLong    == "Question is too long (max 500 characters)"
QuestionTooShort   == "Question is too short (min 3 characters)"
TwoOptionsRequired == "Please provide at least two options."
TooManyOptions     == "Too many options (max 10)"
TwoNonEmptyOptions == "At least two non-empty options are required."
OptionNotString    == "Option must be a string"
OptionTooLong      == "Option is too long (max 200 characters)"
OptionEmpty        == "Option cannot be empty"
LoginToCreate      == "You must be logged in to create a poll."
LoginToUpdate      == "You must be logged in to update a poll."
CreateRateLimited  == "Rate limit exceeded. You can create 10 polls per hour. Try again later."
VoteRateLimited    == "Rate limit exceeded. You can vote 5 times per minute. Try again later."
InvalidPollId      == "Invalid poll ID"
InvalidOptionIndex == "Invalid option index"
PollNotFound       == "Poll not found"
InvalidOption      == "Invalid option selected"
AlreadyVoted       == "You have already voted on this poll"
AuthRequired       == "Authentication required"
NotAuthenticated   == "Not authenticated"

(***************************************************************************)
(* The Store: the tables of the README's SQL                               *)
(***************************************************************************)
\* the id of the n-th poll the Store creates (gen_random_uuid(), shortened)
DigitChar(n) == <<"0","1","2","3","4","5","6","7","8","9">>[n + 1]

PollId(n) == <<"p", DigitChar(n)>>

QuestionMinLen == 3

QuestionMaxLen == 500

OptionsMin == 2

OptionsMax == 10

OptionMaxLen == 200

\* As PollRowCheck, for a polls table without the CHECK on the question
PollRowCheckOptionsOnly(question, options) ==
    Len(options) = 0 \/ (Len(options) >= OptionsMin /\ Len(options) <= OptionsMax)

\* CHECK (length(question) >= 3 AND length(question) <= 500) and
\* CHECK (array_length(options, 1) >= 2 AND array_length(options, 1) <= 10)
\* of table polls; array_length of an empty array is NULL, which passes
PollRowCheck(question, options) ==
    /\ Len(question) >= QuestionMinLen
    /\ Len(question) <= QuestionMaxLen
    /\ Len(options) = 0 \/ (Len(options) >= OptionsMin /\ Len(options) <= OptionsMax)

\* poll_id REFERENCES polls(id) and CHECK (option_index >= 0) of table votes
VoteRowCheck(table, row) ==
    /\ row.poll_id \in DOMAIN table
    /\ row.option_index >= 0

\* the votes that stay when poll id goes: poll_id ... ON DELETE CASCADE
CascadeVotes(bag, id) ==
    [r \in {q \in DOMAIN bag : q.poll_id # id} |-> bag[r]]

\* how many rows of the bag are votes of voter on poll id
VotesOf(bag, id, voter) ==
    LET rows == {r \in DOMAIN bag : r.poll_id = id /\ r.user_id = voter}
        RECURSIVE Sum(_)
        Sum(S) == IF S = {} THEN 0
                  ELSE LET r == CHOOSE q \in S : TRUE IN bag[r] + Sum(S \ {r})
    IN  Sum(rows)

\* the bag with one more copy of row
BagAdd(bag, row) ==
    [r \in DOMAIN bag \cup {row} |->
        IF r = row THEN (IF row \in DOMAIN bag THEN bag[row] + 1 ELSE 1)
        ELSE bag[r]]

\* the number of rows of the bag
BagSize(bag) ==
    LET RECURSIVE Sum(_)
        Sum(S) == IF S = {} THEN 0
                  ELSE LET r == CHOOSE q \in S : TRUE IN bag[r] + Sum(S \ {r})
    IN  Sum(DOMAIN bag)


(***************************************************************************)
(* What a step leaves in `last`                                            *)
(***************************************************************************)
\* op: the server action, result: what it returned or threw,
\* who: what the call was made with (see Caller),
\* rl: "none" when the call did not reach checkRateLimit, else what it answered,
\* fault: a request of the call to the Store failed on the way,
\* rows: how many rows the Store wrote or deleted for the call
Call(op, who, result, rl, fault, rows) ==
    [op |-> op, who |-> who, result |-> result, rl |-> rl, fault |-> fault,
     rows |-> rows]

\* The caller has a session with a user
Authenticated(session) == ~session.error /\ session.user # NoUser

\* The caller is the owner of the poll that pollId names, as the call starts
Owns(session, pollId) ==
    /\ Authenticated(session)
    /\ pollId.t = "string"
    /\ pollId.v \in DOMAIN polls
    /\ polls[pollId.v].user_id = session.user

\* formData.getAll("options").filter(Boolean)
FilterBoolean(options) == SelectSeq(options, Truthy)

\* the arguments of createPoll and updatePoll
FormArgs(question, options) ==
    [question |-> question, optionCount |-> Len(FilterBoolean(options)),
     optionIndex |-> NotANumber]

\* the arguments of submitVote, and how many options the poll it read has
VoteArgs(optionIndex, read) ==
    [question |-> NullValue, optionCount |-> read, optionIndex |-> optionIndex]

\* the arguments of a call without a form and without an index
NoArgs == [question |-> NullValue, optionCount |-> -1, optionIndex |-> NotANumber]

\* What a call was made with, as far as the properties need it: whether the
\* caller is authenticated, whether the id is well formed, for updatePoll
\* and deletePoll whether the caller owns the poll and which poll that is, and
\* for createPoll and updatePoll the length of the question as it came in
\* (-1 when the question is no string) and the number of options the action
\* works with, for submitVote the index as it came in and the number of
\* options of the poll the call read (-1 when it read none)
Caller(session, pollId, owned, args) ==
    [authed |-> Authenticated(session), validId |-> isValidPollId(pollId),
     owned |-> owned, target |-> IF owned THEN pollId.v ELSE <<>>,
     questionLength |-> IF args.question.t = "string" THEN Len(args.question.v) ELSE -1,
     optionCount |-> args.optionCount,
     optionIndex |-> args.optionIndex]

\* no call returned in the step
NoCall ==
    Call("none", [authed |-> FALSE, validId |-> FALSE, owned |-> FALSE, target |-> <<>>,
                  questionLength |-> -1, optionCount |-> -1, optionIndex |-> NotANumber],
         Return(NoError), "none", FALSE, 0)

(***************************************************************************)
(* createPoll and updatePoll: the validation of the form                   *)
(***************************************************************************)
\* the first check of the map callback that the option fails
OptionFailure(option) ==
    IF option.t # "string" THEN OptionNotString
    ELSE IF Len(option.v) > OptionMaxLen THEN OptionTooLong
    ELSE IF Len(Trim(option.v)) = 0 THEN OptionEmpty
    ELSE NoError

\* As sanitizedOptions, for options that are stored as they came
sanitizedOptionsAsTyped(options) ==
    [i \in 1..Len(FilterBoolean(options)) |-> FilterBoolean(options)[i].v]

sanitizedOptions(options) ==
    [i \in 1..Len(FilterBoolean(options)) |-> sanitizeInput(FilterBoolean(options)[i])]

\* As ValidateForm, without the test of the number of options against the
\* maximum
ValidateFormAnyNumber(question, options) ==
    LET opts == FilterBoolean(options)
        bad  == {i \in 1..Len(opts) : OptionFailure(opts[i]) # NoError}
    IN  IF ~Truthy(question) \/ question.t # "string" THEN Return(QuestionRequired)
        ELSE IF Len(question.v) > QuestionMaxLen THEN Return(QuestionTooLong)
        ELSE IF Len(question.v) < QuestionMinLen THEN Return(QuestionTooShort)
        ELSE IF Len(opts) < OptionsMin THEN Return(TwoOptionsRequired)
        ELSE IF bad # {} THEN Throw(OptionFailure(opts[Min(bad)]), Min(bad))
        ELSE IF Len(sanitizedOptions(options)) < OptionsMin THEN Return(TwoNonEmptyOptions)
        ELSE Return(NoError)

\* As ValidateForm, without the test of the question against the maximum
ValidateFormNoMaximum(question, options) ==
    LET opts == FilterBoolean(options)
        bad  == {i \in 1..Len(opts) : OptionFailure(opts[i]) # NoError}
    IN  IF ~Truthy(question) \/ question.t # "string" THEN Return(QuestionRequired)
        ELSE IF Len(question.v) < QuestionMinLen THEN Return(QuestionTooShort)
        ELSE IF Len(opts) < OptionsMin THEN Return(TwoOptionsRequired)
        ELSE IF Len(opts) > OptionsMax THEN Return(TooManyOptions)
        ELSE IF bad # {} THEN Throw(OptionFailure(opts[Min(bad)]), Min(bad))
        ELSE IF Len(sanitizedOptions(options)) < OptionsMin THEN Return(TwoNonEmptyOptions)
        ELSE Return(NoError)

\* Return(NoError) when the form passes, else what the action returns or throws
ValidateForm(question, options) ==
    LET opts == FilterBoolean(options)
        bad  == {i \in 1..Len(opts) : OptionFailure(opts[i]) # NoError}
    IN  IF ~Truthy(question) \/ question.t # "string" THEN Return(QuestionRequired)
        ELSE IF Len(question.v) > QuestionMaxLen THEN Return(QuestionTooLong)
        ELSE IF Len(question.v) < QuestionMinLen THEN Return(QuestionTooShort)
        ELSE IF Len(opts) < OptionsMin THEN Return(TwoOptionsRequired)
        ELSE IF Len(opts) > OptionsMax THEN Return(TooManyOptions)
        ELSE IF bad # {} THEN Throw(OptionFailure(opts[Min(bad)]), Min(bad))
        ELSE IF Len(sanitizedOptions(options)) < OptionsMin THEN Return(TwoNonEmptyOptions)
        ELSE Return(NoError)

\* As RateLimitUser, for a caller whose getUser failed counted apart
RateLimitUserByCaller(session) ==
    IF session.error THEN "unknown"
    ELSE IF session.user = NoUser THEN "" ELSE session.user

\* `user?.id ?? ''`, and user.id of a user
RateLimitUser(session) == IF session.user = NoUser THEN "" ELSE session.user

\* what the Store answers to a write of a polls row
PollWriteError(fault, question, options) ==
    IF fault THEN StoreFaultText
    ELSE IF ~PollRowCheck(question, options) THEN StoreCheckText
    ELSE NoError

(***************************************************************************)
(* createPoll                                                              *)
(***************************************************************************)
MaxPolls == 2

createPoll(session, question, options, fault) ==
    LET form    == ValidateForm(question, options)
        authed  == form = Return(NoError) /\ ~session.error /\ session.user # NoUser
        rl      == checkRateLimit(rateLimitStore, now, RateLimitUser(session), "",
                                  RATE_LIMITS.CREATE_POLL)
        q       == sanitizeInput(question)
        o       == sanitizedOptions(options)
        error   == PollWriteError(fault, q, o)
        inserts == authed /\ rl.allowed /\ error = NoError
        result  == IF form # Return(NoError) THEN form
                   ELSE IF session.error THEN Return(AuthErrorText)
                   ELSE IF session.user = NoUser THEN Return(LoginToCreate)
                   ELSE IF ~rl.allowed THEN Return(CreateRateLimited)
                   ELSE Return(error)
    IN  /\ nextPoll < MaxPolls
        /\ rateLimitStore' = IF authed THEN rl.store ELSE rateLimitStore
        /\ polls' = IF inserts
                    THEN MapSet(polls, PollId(nextPoll + 1),
                                [user_id |-> session.user, question |-> q,
                                 options |-> o, created_at |-> now])
                    ELSE polls
        /\ nextPoll' = IF inserts THEN nextPoll + 1 ELSE nextPoll
        /\ last' = Call("createPoll", Caller(session, NullValue, FALSE, FormArgs(question, options)), result,
                        IF ~authed THEN "none" ELSE IF rl.allowed THEN "allowed" ELSE "denied",
                        authed /\ rl.allowed /\ fault,
                        IF inserts THEN 1 ELSE 0)
        /\ UNCHANGED <<votes, now, calls>>

(***************************************************************************)
(* updatePoll                                                              *)
(***************************************************************************)
\* As UpdateMatches, without the filter on the id
UpdateMatchesAnyId(table, id, user) == {p \in DOMAIN table : table[p].user_id = user}

\* .update({question, options}).eq("id", pollId).eq("user_id", user.id)
UpdateMatches(table, id, user) == {p \in DOMAIN table : p = id /\ table[p].user_id = user}

\* what the Store answers to the update: an update that matches no row is no
\* error, and the row checks run on the rows it writes
UpdateError(fault, match, question, options) ==
    IF match = {} /\ ~fault THEN NoError ELSE PollWriteError(fault, question, options)

updatePoll(session, pollId, question, options, fault) ==
    LET form    == ValidateForm(question, options)
        reaches == /\ isValidPollId(pollId)
                   /\ form = Return(NoError)
                   /\ ~session.error
                   /\ session.user # NoUser
        q       == sanitizeInput(question)
        o       == sanitizedOptions(options)
        match   == UpdateMatches(polls, pollId.v, session.user)
        error   == UpdateError(fault, match, q, o)
        writes  == reaches /\ error = NoError
        result  == IF ~isValidPollId(pollId) THEN Return(InvalidPollId)
                   ELSE IF form # Return(NoError) THEN form
                   ELSE IF session.error THEN Return(AuthErrorText)
                   ELSE IF session.user = NoUser THEN Return(LoginToUpdate)
                   ELSE Return(error)
    IN  /\ polls' = IF writes
                    THEN [p \in DOMAIN polls |->
                            IF p \in match
                            THEN [polls[p] EXCEPT !.question = q, !.options = o]
                            ELSE polls[p]]
                    ELSE polls
        /\ last' = Call("updatePoll", Caller(session, pollId, Owns(session, pollId),
                                             FormArgs(question, options)),
                        result, "none", reaches /\ fault,
                        IF writes THEN Cardinality(match) ELSE 0)
        /\ UNCHANGED <<votes, nextPoll, rateLimitStore, now, calls>>

(***************************************************************************)
(* deletePoll                                                              *)
(***************************************************************************)
\* As DeleteMatches, without the filter on the owner
DeleteMatchesAnyOwner(table, id, user) == {p \in DOMAIN table : p = id}

\* .delete().eq("id", id).eq("user_id", user.id)
DeleteMatches(table, id, user) == {p \in DOMAIN table : p = id /\ table[p].user_id = user}

\* As DeleteError, for a Store that answers an error when no row matches
DeleteErrorOnNoRow(fault, match) ==
    IF fault THEN StoreFaultText ELSE IF match = {} THEN PollNotFound ELSE NoError

\* what the Store answers to the delete: a delete that matches no row is no error
DeleteError(fault, match) == IF fault THEN StoreFaultText ELSE NoError

deletePoll(session, id, fault) ==
    LET reaches == ~session.error /\ session.user # NoUser /\ isValidPollId(id)
        match   == DeleteMatches(polls, id.v, session.user)
        error   == DeleteError(fault, match)
        deletes == reaches /\ error = NoError
        result  == IF session.error \/ session.user = NoUser THEN Return(AuthRequired)
                   ELSE IF ~isValidPollId(id) THEN Return(InvalidPollId)
                   ELSE Return(error)
    IN  /\ polls' = IF deletes THEN [p \in DOMAIN polls \ match |-> polls[p]] ELSE polls
        /\ votes' = IF deletes /\ match # {} THEN CascadeVotes(votes, id.v) ELSE votes
        /\ last' = Call("deletePoll", Caller(session, id, Owns(session, id), NoArgs),
                        result, "none", reaches /\ fault,
                        IF deletes THEN Cardinality(match) ELSE 0)
        /\ UNCHANGED <<nextPoll, rateLimitStore, now, calls>>


(***************************************************************************)
(* submitVote, one step per request it awaits                              *)
(***************************************************************************)
MaxVotes == 2

MaxCalls == 2

Slots == 1..MaxCalls

\* a slot: where the call stands, what it was called with, and how many options
\* the poll it read has
Idle == [pc |-> "idle", session |-> AnonymousSession, pollId |-> NullValue,
         optionIndex |-> NotANumber, read |-> -1]

InFlight == {s \in Slots : calls[s].pc # "idle"}

\* As IsBadIndex, for a call that leaves the index to isValidOptionIndex
IsBadIndexSkipped(optionIndex) == FALSE

\* typeof optionIndex !== 'number' || !Number.isInteger(optionIndex) || optionIndex < 0
IsBadIndex(optionIndex) ==
    optionIndex.t # "number" \/ ~optionIndex.int \/ optionIndex.v < 0

\* The checks of the arguments and the read of the poll:
\* .from("polls").select("options").eq("id", pollId).single()
submitVoteRead(s, session, pollId, optionIndex, fault) ==
    LET found  == ~fault /\ pollId.v \in DOMAIN polls
        read   == IF isValidPollId(pollId) /\ ~IsBadIndex(optionIndex) /\ found
                  THEN Len(polls[pollId.v].options) ELSE -1
        result == IF ~isValidPollId(pollId) THEN Return(InvalidPollId)
                  ELSE IF IsBadIndex(optionIndex) THEN Return(InvalidOptionIndex)
                  ELSE IF ~found THEN Return(PollNotFound)
                  ELSE IF ~isValidOptionIndex(optionIndex, Len(polls[pollId.v].options))
                       THEN Return(InvalidOption)
                  ELSE Return(NoError)
    IN  /\ calls[s].pc = "idle"
        /\ BagSize(votes) + Cardinality(InFlight) < MaxVotes
        /\ IF result = Return(NoError)
           THEN /\ calls' = [calls EXCEPT ![s] =
                                [pc |-> "rateLimit", session |-> session,
                                 pollId |-> pollId, optionIndex |-> optionIndex,
                                 read |-> read]]
                /\ last' = NoCall
           ELSE /\ calls' = calls
                /\ last' = Call("submitVote",
                                Caller(session, pollId, FALSE, VoteArgs(optionIndex, read)),
                                result, "none",
                                fault /\ isValidPollId(pollId) /\ ~IsBadIndex(optionIndex),
                                0)
        /\ UNCHANGED <<polls, votes, nextPoll, rateLimitStore, now>>

\* supabase.auth.getUser() and checkRateLimit(user?.id ?? '', '', RATE_LIMITS.VOTE)
submitVoteRateLimit(s) ==
    LET c  == calls[s]
        rl == checkRateLimit(rateLimitStore, now, RateLimitUser(c.session), "",
                             RATE_LIMITS.VOTE)
    IN  /\ c.pc = "rateLimit"
        /\ rateLimitStore' = rl.store
        /\ IF rl.allowed
           THEN /\ calls' = [calls EXCEPT ![s].pc =
                                IF c.session.user # NoUser THEN "duplicate" ELSE "insert"]
                /\ last' = NoCall
           ELSE /\ calls' = [calls EXCEPT ![s] = Idle]
                /\ last' = Call("submitVote", Caller(c.session, c.pollId, FALSE,
                                       VoteArgs(c.optionIndex, c.read)),
                                Return(VoteRateLimited), "denied", FALSE, 0)
        /\ UNCHANGED <<polls, votes, nextPoll, now>>

\* As ExistingVote, for a check that finds nothing
ExistingVoteNever(bag, id, user) == FALSE

\* .from("votes").select("id").eq("poll_id", pollId).eq("user_id", user.id).single():
\* single() answers a row only when exactly one row matches
ExistingVote(bag, id, user) == VotesOf(bag, id, user) = 1

submitVoteDuplicate(s) ==
    LET c == calls[s]
    IN  /\ c.pc = "duplicate"
        /\ IF ExistingVote(votes, c.pollId.v, c.session.user)
           THEN /\ calls' = [calls EXCEPT ![s] = Idle]
                /\ last' = Call("submitVote", Caller(c.session, c.pollId, FALSE,
                                       VoteArgs(c.optionIndex, c.read)),
                                Return(AlreadyVoted), "allowed", FALSE, 0)
           ELSE /\ calls' = [calls EXCEPT ![s].pc = "insert"]
                /\ last' = NoCall
        /\ UNCHANGED <<polls, votes, nextPoll, rateLimitStore, now>>

\* .from("votes").insert([{poll_id, user_id, option_index, created_at}])
submitVoteInsert(s, fault) ==
    LET c     == calls[s]
        row   == [poll_id |-> c.pollId.v, user_id |-> c.session.user,
                  option_index |-> c.optionIndex.v, created_at |-> now]
        error == IF fault THEN StoreFaultText
                 ELSE IF ~VoteRowCheck(polls, row) THEN StoreForeignText
                 ELSE NoError
    IN  /\ c.pc = "insert"
        /\ votes' = IF error = NoError THEN BagAdd(votes, row) ELSE votes
        /\ calls' = [calls EXCEPT ![s] = Idle]
        /\ last' = Call("submitVote", Caller(c.session, c.pollId, FALSE,
                                       VoteArgs(c.optionIndex, c.read)),
                                Return(error), "allowed", fault,
                         IF error = NoError THEN 1 ELSE 0)
        /\ UNCHANGED <<polls, nextPoll, rateLimitStore, now>>

(***************************************************************************)
(* getUserPolls                                                            *)
(***************************************************************************)
\* return { polls, error }
ReturnPolls(rows, e) == [kind |-> "return", error |-> e, at |-> 0, polls |-> rows]

\* As UserMatches, without the filter on the owner
UserMatchesAnyOwner(table, user) == DOMAIN table

\* .select("*").eq("user_id", user.id)
UserMatches(table, user) == {p \in DOMAIN table : table[p].user_id = user}

\* .order("created_at", { ascending: false }): the orders the Store can answer
\* the rows in; rows of one instant come in any order
NewestFirst(table, ids) ==
    {order \in [1..Cardinality(ids) -> ids] :
        /\ \A i, j \in 1..Cardinality(ids) : i # j => order[i] # order[j]
        /\ \A i, j \in 1..Cardinality(ids) :
              i < j => table[order[i]].created_at >= table[order[j]].created_at}

\* a row as select("*") answers it
PollRow(table, id) ==
    [id |-> id, user_id |-> table[id].user_id, question |-> table[id].question,
     options |-> table[id].options, created_at |-> table[id].created_at]

getUserPolls(session, fault) ==
    \E order \in NewestFirst(polls, UserMatches(polls, session.user)) :
        LET rows   == [i \in 1..Len(order) |-> PollRow(polls, order[i])]
            result == IF session.user = NoUser THEN ReturnPolls(<<>>, NotAuthenticated)
                      ELSE IF fault THEN ReturnPolls(<<>>, StoreFaultText)
                      ELSE ReturnPolls(rows, NoError)
        IN  /\ last' = Call("getUserPolls", Caller(session, NullValue, FALSE, NoArgs),
                            result, "none", session.user # NoUser /\ fault, 0)
            /\ UNCHANGED <<polls, votes, nextPoll, rateLimitStore, now, calls>>

(***************************************************************************)
(* Time, and the cleanup timer of the rate limiter                         *)
(***************************************************************************)
\* the clock reaches the instant t
Advance(t) ==
    /\ t > now
    /\ now' = t
    /\ UNCHANGED <<polls, votes, nextPoll, rateLimitStore, calls, last>>

CleanupIntervalMs == 5 * 60 * 1000

\* the setInterval callback; a timer fires at its time or later, never before
cleanup ==
    /\ now >= CleanupIntervalMs
    /\ rateLimitStore' = CleanupExpired(rateLimitStore, now)
    /\ UNCHANGED <<polls, votes, nextPoll, now, calls, last>>

(***************************************************************************)
(* The state after the module is loaded: empty tables, an empty map        *)
(***************************************************************************)
EmptyMap == [k \in {} |-> 0]

Loaded ==
    /\ polls = EmptyMap
    /\ votes = EmptyMap
    /\ nextPoll = 0
    /\ rateLimitStore = EmptyMap
    /\ now = 0
    /\ calls = [s \in Slots |-> Idle]
    /\ history = <<>>

Init == Loaded /\ last = NoCall


(***************************************************************************)
(* The callers and what they send                                          *)
(***************************************************************************)
Users == {"u1", "u2"}

Sessions == {UserSession(u) : u \in Users} \cup {AnonymousSession, FailedSession}

\* the ids of the polls the Store can hold, one it never generates, and one
\* that is no valid id
KnownIds == {Str(PollId(n)) : n \in 1..MaxPolls}

SomeIds == KnownIds \cup {Str(<<"p", "/">>)}

Voters == {UserSession(u) : u \in Users}

Callers == Voters \cup {AnonymousSession}

FirstQuestion == Str(<<"a", "b", "c">>)

SecondQuestion == Str(<<"a", "b", "d">>)

TwoOptions == <<Str(<<"x">>), Str(<<"y">>)>>

ThreeOptions == <<Str(<<"x">>), Str(<<"y">>), Str(<<"z">>)>>

\* two valid forms, which differ in the question and in the number of options
SomeForms ==
    {[question |-> FirstQuestion, options |-> TwoOptions],
     [question |-> SecondQuestion, options |-> ThreeOptions]}

SomeIndexes ==
    {NumberValue(n) : n \in -1..3} \cup {FractionValue(0), NotANumber}

\* no submitVote is in flight: the calls run one at a time
Sequential == InFlight = {}

(***************************************************************************)
(* Spec: the server actions, called one at a time                          *)
(***************************************************************************)
Next ==
    \/ \E session \in Callers :
          Sequential /\ createPoll(session, FirstQuestion, TwoOptions, FALSE)
                     /\ UNCHANGED history
    \/ \E session \in Callers, pollId \in SomeIds, form \in SomeForms :
          Sequential /\ updatePoll(session, pollId, form.question, form.options, FALSE)
                     /\ UNCHANGED history
    \/ \E session \in Callers, pollId \in SomeIds :
          Sequential /\ deletePoll(session, pollId, FALSE) /\ UNCHANGED history
    \* the same, with a request to the Store that fails
    \/ \E session \in Voters :
          Sequential /\ updatePoll(session, Str(PollId(1)), SecondQuestion, ThreeOptions, TRUE)
                     /\ UNCHANGED history
    \/ \E session \in Voters :
          Sequential /\ deletePoll(session, Str(PollId(1)), TRUE) /\ UNCHANGED history
    \/ \E optionIndex \in {NumberValue(0), NumberValue(2)} :
          Sequential /\ submitVoteRead(1, UserSession("u1"), Str(PollId(1)), optionIndex, FALSE)
                     /\ UNCHANGED history
    \/ submitVoteRateLimit(1) /\ UNCHANGED history
    \/ submitVoteDuplicate(1) /\ UNCHANGED history
    \/ submitVoteInsert(1, FALSE) /\ UNCHANGED history

Spec == Init /\ [][Next]_vars

(***************************************************************************)
(* Ownership                                                               *)
(***************************************************************************)
\* What one step may do to the polls table
OwnershipStep ==
    /\ \A id \in DOMAIN polls :
          /\ id \notin DOMAIN polls' =>
                last'.op = "deletePoll" /\ last'.who.owned /\ last'.who.target = id
          /\ (/\ id \in DOMAIN polls'
              /\ \/ polls'[id].question # polls[id].question
                 \/ polls'[id].options # polls[id].options) =>
                last'.op = "updatePoll" /\ last'.who.owned /\ last'.who.target = id
    /\ (last'.op \in {"updatePoll", "deletePoll"} /\ ~last'.who.owned) => polls' = polls

\* C3: a poll's question and options change only through an updatePoll of its
\* owner, a poll goes only through a deletePoll of its owner, and an
\* updatePoll or deletePoll of anyone who does not own the poll it names
\* leaves the polls table as it was.
OnlyOwnerChangesPoll == [][OwnershipStep]_vars

\* Every poll the Store can hold exists, and a deletePoll by an authenticated
\* caller who does not own the poll it names has just returned
ForeignDeleteReturned ==
    /\ \A pollId \in KnownIds : pollId.v \in DOMAIN polls
    /\ last.op = "deletePoll"
    /\ last.who.authed /\ last.who.validId /\ ~last.who.owned /\ ~last.fault

Event(what, op, user, poll, at) ==
    [what |-> what, op |-> op, user |-> user, poll |-> poll, at |-> at]

\* remembers the vote of slot s when the step inserted it
RecordVoted(s) ==
    history' = IF last'.op = "submitVote" /\ last'.rows = 1
               THEN Append(history, Event("voted", "submitVote", calls[s].session.user,
                                          calls[s].pollId.v, now))
               ELSE history

\* the actor has a vote on the poll that the Store took
HasVoted(user, poll) ==
    \E i \in 1..Len(history) :
        history[i].what = "voted" /\ history[i].user = user /\ history[i].poll = poll

(***************************************************************************)
(* SpecVote: votes of several actors for several options, one call at a    *)
(* time, on polls that come and go                                         *)
(***************************************************************************)
VoteIndexes == {NumberValue(0), NumberValue(1), NumberValue(2)}

NextVote ==
    \/ Sequential /\ createPoll(UserSession("u1"), FirstQuestion, TwoOptions, FALSE)
                  /\ UNCHANGED history
    \/ \E pollId \in KnownIds :
          Sequential /\ deletePoll(UserSession("u1"), pollId, FALSE) /\ UNCHANGED history
    \/ \E session \in Voters, pollId \in KnownIds, optionIndex \in VoteIndexes :
          Sequential /\ submitVoteRead(1, session, pollId, optionIndex, FALSE)
                     /\ UNCHANGED history
    \/ submitVoteRateLimit(1) /\ UNCHANGED history
    \/ submitVoteDuplicate(1) /\ UNCHANGED history
    \/ \E fault \in BOOLEAN : submitVoteInsert(1, fault) /\ RecordVoted(1)

SpecVote == Init /\ [][NextVote]_vars

\* A submitVote of an authenticated actor who has voted on the poll returns,
\* after checkRateLimit allowed it
VoteAgainStep ==
    \A s \in Slots :
        (/\ calls[s].pc # "idle" /\ calls'[s].pc = "idle"
         /\ calls[s].session.user # NoUser
         /\ HasVoted(calls[s].session.user, calls[s].pollId.v)
         /\ last'.rl = "allowed")
        => (last'.result = Return(AlreadyVoted) /\ last'.rows = 0 /\ votes' = votes)

NextRace ==
    \/ InFlight = {} /\ createPoll(UserSession("u1"), FirstQuestion, TwoOptions, FALSE)
                     /\ UNCHANGED history
    \/ \E pollId \in KnownIds :
          deletePoll(UserSession("u1"), pollId, FALSE) /\ UNCHANGED history
    \/ \E s \in Slots, session \in {UserSession("u1"), AnonymousSession},
          pollId \in KnownIds,
          optionIndex \in {NumberValue(0), NumberValue(1)} :
          submitVoteRead(s, session, pollId, optionIndex, FALSE) /\ UNCHANGED history
    \/ \E s \in Slots : submitVoteRateLimit(s) /\ UNCHANGED history
    \/ \E s \in Slots : submitVoteDuplicate(s) /\ UNCHANGED history
    \/ \E s \in Slots : submitVoteInsert(s, FALSE) /\ RecordVoted(s)

SpecRace == Init /\ [][NextRace]_vars

\* C2: in every state, also with submitVote calls that interleave at their
\* requests to the Store, the votes table holds at most one vote of a voter
\* on a poll, for every poll and every voter that is not null.
OneVotePerVoter ==
    \A r \in DOMAIN votes :
        r.user_id # NoUser => VotesOf(votes, r.poll_id, r.user_id) <= 1

(***************************************************************************)
(* SpecLimiter: a client that calls checkRateLimit over and over for one   *)
(* key with one config, while time passes and the cleanup timer fires      *)
(***************************************************************************)
MaxChecks == 7

LimiterConfigs ==
    {[windowMs |-> 2, maxRequests |-> 1],
     [windowMs |-> 2, maxRequests |-> 3],
     RATE_LIMITS.VOTE}

LimiterInstants == {1, 2, 3, 60000, 60001, 300000}

\* the client, with the config it passes on every call
LimiterClient(config) == [op |-> "checkRateLimit", config |-> config]

InitLimiter == Loaded /\ \E config \in LimiterConfigs : last = LimiterClient(config)

\* one call checkRateLimit("u1", "", config); history takes what it answered
LimiterCheck ==
    LET r == checkRateLimit(rateLimitStore, now, "u1", "", last.config)
    IN  /\ Len(history) < MaxChecks
        /\ rateLimitStore' = r.store
        /\ history' = Append(history,
                             [at |-> now, allowed |-> r.allowed,
                              remaining |-> r.remaining, resetTime |-> r.resetTime])
        /\ UNCHANGED <<polls, votes, nextPoll, now, calls, last>>

NextLimiter ==
    \/ LimiterCheck
    \/ \E t \in LimiterInstants : Advance(t) /\ UNCHANGED history
    \/ cleanup /\ UNCHANGED history

SpecLimiter == InitLimiter /\ [][NextLimiter]_vars

\* the k-th call opens a window: it is the first, or it comes after the reset
\* instant that the call before it reported
OpensWindow(k) == k = 1 \/ history[k].at > history[k - 1].resetTime

\* the call that opened the window of the k-th call
WindowStart(k) ==
    CHOOSE j \in 1..k : OpensWindow(j) /\ \A i \in (j + 1)..k : ~OpensWindow(i)

\* C6: of the calls for one key with one config (maxRequests = N, windowMs = W),
\* from an empty map: the first N calls of a window (made while
\* now <= resetTime) are allowed with remaining N-1, ..., 0, every further call
\* of the window is refused with remaining 0, and the first call past
\* resetTime is allowed with remaining N-1 in a window that resets at now + W.
LimiterAnswers ==
    LET N == MergeConfig(last.config).maxRequests
        W == MergeConfig(last.config).windowMs
    IN  \A k \in 1..Len(history) :
            LET j == WindowStart(k)
                n == k - j + 1
            IN  /\ history[k].resetTime = history[j].at + W
                /\ IF n <= N
                   THEN history[k].allowed /\ history[k].remaining = N - n
                   ELSE ~history[k].allowed /\ history[k].remaining = 0

\* A call at the reset instant itself was refused, and the next call, past
\* that instant, was allowed
RefusedAtResetThenAllowed ==
    \E k \in 1..(Len(history) - 1) :
        /\ ~history[k].allowed
        /\ history[k].at = history[k].resetTime
        /\ history[k + 1].allowed
        /\ history[k + 1].at > history[k].resetTime

(***************************************************************************)
(* SpecQuota: users who create polls, and one of them who votes, as time    *)
(* passes                                                                  *)
(***************************************************************************)
QuotaInstants == {RATE_LIMITS.VOTE.windowMs, RATE_LIMITS.VOTE.windowMs + 1}

\* remembers the createPoll of the step when checkRateLimit allowed it and the
\* poll was inserted
RecordCreatePassed(session) ==
    history' = IF last'.op = "createPoll" /\ last'.rl = "allowed" /\ last'.rows = 1
               THEN Append(history, Event("passed", "createPoll", session.user, <<>>, now))
               ELSE history

\* remembers the submitVote of slot s when checkRateLimit allowed it
RecordVotePassed(s) ==
    history' = IF calls'[s].pc # "idle"
               THEN Append(history, Event("passed", "submitVote", calls[s].session.user,
                                          calls[s].pollId.v, now))
               ELSE history

NextQuota ==
    \/ \E session \in Voters :
          Sequential /\ createPoll(session, FirstQuestion, TwoOptions, FALSE)
                     /\ RecordCreatePassed(session)
    \/ \E pollId \in KnownIds :
          Sequential /\ submitVoteRead(1, UserSession("u1"), pollId, NumberValue(0), FALSE)
                     /\ UNCHANGED history
    \/ submitVoteRateLimit(1) /\ RecordVotePassed(1)
    \/ submitVoteDuplicate(1) /\ UNCHANGED history
    \/ submitVoteInsert(1, FALSE) /\ UNCHANGED history
    \/ \E t \in QuotaInstants : Advance(t) /\ UNCHANGED history

SpecQuota == Init /\ [][NextQuota]_vars

\* the calls of the user of the i-th event, of the same server action, that
\* passed in the interval of the given length that starts at that event
PassedWithin(i, length) ==
    {j \in 1..Len(history) :
        /\ history[j].what = "passed"
        /\ history[j].op = history[i].op
        /\ history[j].user = history[i].user
        /\ history[j].at >= history[i].at
        /\ history[j].at < history[i].at + length}

\* C5: for every user, in any interval of one hour at most 10 of the user's
\* createPoll calls pass the rate-limit check and insert a poll, and in any
\* interval of one minute at most 5 of the user's submitVote calls pass it.
QuotaPerInterval ==
    \A i \in 1..Len(history) :
        /\ (history[i].what = "passed" /\ history[i].op = "createPoll") =>
              Cardinality(PassedWithin(i, RATE_LIMITS.CREATE_POLL.windowMs))
                  <= RATE_LIMITS.CREATE_POLL.maxRequests
        /\ (history[i].what = "passed" /\ history[i].op = "submitVote") =>
              Cardinality(PassedWithin(i, RATE_LIMITS.VOTE.windowMs))
                  <= RATE_LIMITS.VOTE.maxRequests

(***************************************************************************)
(* SpecForm: createPoll and updatePoll with the forms a client can send    *)
(***************************************************************************)
Form(question, options) == [question |-> question, options |-> options]

\* n options "a", "a", ...
Options(n) == [i \in 1..n |-> Str(<<"a">>)]

PaddedQuestion == Str(<<" ", " ", "a", " ", " ">>)

TaggedQuestion == Str(<<"<", "a", ">", "b">>)

LongestQuestion == Str(Rep("a", QuestionMaxLen))

TooLongQuestion == Str(Rep("a", QuestionMaxLen + 1))

BlankOption == Str(<<" ", " ", " ">>)

AngleOption == Str(<<"<", ">">>)

SpacedAngleOption == Str(<<"<", " ", ">">>)

LongestOption == Str(Rep("a", OptionMaxLen))

TooLongOption == Str(Rep("a", OptionMaxLen + 1))

Forms ==
    {\* questions, with options that pass
     Form(FirstQuestion, TwoOptions),
     Form(LongestQuestion, ThreeOptions),
     Form(NullValue, TwoOptions),
     Form(FileValue, TwoOptions),
     Form(Str(<<>>), TwoOptions),
     Form(Str(<<"a", "b">>), TwoOptions),
     Form(TooLongQuestion, TwoOptions),
     Form(PaddedQuestion, TwoOptions),
     Form(TaggedQuestion, TwoOptions),
     \* questions out of range, with options that do not pass
     Form(Str(<<"a", "b">>), <<Str(<<"x">>), BlankOption>>),
     Form(TooLongQuestion, <<Str(<<"x">>)>>),
     \* options
     Form(FirstQuestion, <<Str(<<"x">>)>>),
     Form(FirstQuestion, <<>>),
     Form(FirstQuestion, Options(OptionsMax)),
     Form(FirstQuestion, Options(OptionsMax + 1)),
     Form(FirstQuestion, <<Str(<<"x">>), Str(<<>>), NullValue, Str(<<"y">>)>>),
     Form(FirstQuestion, <<Str(<<" ", "x", " ">>), LongestOption>>),
     Form(FirstQuestion, <<Str(<<"x">>), BlankOption>>),
     Form(FirstQuestion, <<TooLongOption, Str(<<"y">>)>>),
     Form(FirstQuestion, <<Str(<<"x">>), Str(<<"y">>), FileValue>>),
     Form(FirstQuestion, <<Str(<<"x">>), AngleOption>>),
     Form(FirstQuestion, <<SpacedAngleOption, Str(<<"y">>)>>)}

\* forms with a question out of range, sent by every caller
OutOfRangeForms ==
    {Form(Str(<<"a", "b">>), <<Str(<<"x">>), BlankOption>>),
     Form(TooLongQuestion, TwoOptions)}

FormCallers == {UserSession("u1"), AnonymousSession, FailedSession}

\* the calls to checkRateLimit that the window of the user has counted
Counted(user) ==
    IF RateLimitKey(user, "") \in DOMAIN rateLimitStore
    THEN rateLimitStore[RateLimitKey(user, "")].count
    ELSE 0

MaxCounted == 2

NextForm ==
    \/ \E form \in Forms :
          /\ Counted("u1") < MaxCounted
          /\ createPoll(UserSession("u1"), form.question, form.options, FALSE)
          /\ UNCHANGED history
    \/ \E form \in Forms :
          updatePoll(UserSession("u1"), Str(PollId(1)), form.question, form.options, FALSE)
             /\ UNCHANGED history
    \/ \E session \in FormCallers, form \in SomeForms \cup OutOfRangeForms,
          fault \in BOOLEAN :
          /\ Counted("u1") < MaxCounted
          /\ createPoll(session, form.question, form.options, fault)
          /\ UNCHANGED history
    \/ \E session \in FormCallers, pollId \in {Str(PollId(1)), Str(<<"p", "/">>)},
          form \in SomeForms \cup OutOfRangeForms :
          updatePoll(session, pollId, form.question, form.options, FALSE)
             /\ UNCHANGED history

SpecForm == Init /\ [][NextForm]_vars

\* C7: createPoll and updatePoll return a result for every input and never
\* throw, also when an option is no string, is longer than 200 characters or
\* is empty after trimming.
AlwaysReturns ==
    last.op \in {"createPoll", "updatePoll"} => last.result.kind = "return"

StoredOptionsValid ==
    \A id \in DOMAIN polls :
        /\ Len(polls[id].options) >= 2
        /\ Len(polls[id].options) <= 10
        /\ \A i \in 1..Len(polls[id].options) :
              /\ Len(Trim(polls[id].options[i])) >= 1
              /\ Len(polls[id].options[i]) <= 200

\* the errors of createPoll that tell the caller the question is invalid
InvalidQuestionErrors ==
    {Return(QuestionRequired), Return(QuestionTooShort), Return(QuestionTooLong)}

\* A createPoll with a question shorter than 3 or longer than 500 characters
QuestionLengthStep ==
    (/\ last'.op = "createPoll"
     /\ last'.who.questionLength >= 0
     /\ \/ last'.who.questionLength < 3
        \/ last'.who.questionLength > 500)
    => (last'.result \in InvalidQuestionErrors /\ last'.rows = 0 /\ polls' = polls)

\* C10: for a question whose raw length is below 3 or above 500, with any
\* options and any caller, createPoll returns an invalid-input error and
\* leaves the polls table as it was.
QuestionLengthRejected == [][QuestionLengthStep]_vars

\* With a poll in the table, a createPoll with a question of 501 characters
\* was told the question is too long
TooLongQuestionReturned ==
    /\ polls # EmptyMap
    /\ last.op = "createPoll"
    /\ last.who.questionLength = 501
    /\ last.result = Return(QuestionTooLong)

\* the errors that tell the caller the number of options is invalid, and for
\* updatePoll the error of the id, which comes first
InvalidOptionsErrors ==
    {Return(TwoOptionsRequired), Return(TooManyOptions), Return(InvalidPollId)}

\* A createPoll or updatePoll with a question in range and fewer than 2 or
\* more than 10 options
OptionCountStep ==
    (/\ last'.op \in {"createPoll", "updatePoll"}
     /\ last'.who.questionLength >= 3
     /\ last'.who.questionLength <= 500
     /\ \/ last'.who.optionCount < 2
        \/ last'.who.optionCount > 10)
    => (/\ last'.result \in InvalidOptionsErrors
        /\ last'.result = Return(InvalidPollId) => (last'.op = "updatePoll" /\ ~last'.who.validId)
        /\ last'.rows = 0
        /\ polls' = polls)

\* C11: with a valid question and an options array (the entries that
\* filter(Boolean) keeps) of fewer than 2 or more than 10 entries, createPoll
\* and updatePoll return an invalid-input error and leave the polls table as
\* it was.
OptionCountRejected == [][OptionCountStep]_vars

\* With a poll in the table, an updatePoll of its owner with 11 options was
\* told there are too many
TooManyOptionsReturned ==
    /\ polls # EmptyMap
    /\ last.op = "updatePoll"
    /\ last.who.owned
    /\ last.who.optionCount = 11
    /\ last.result = Return(TooManyOptions)

(***************************************************************************)
(* sanitizeInput on its own: a client holds one value, passes it to        *)
(* sanitizeInput, and passes what comes back to sanitizeInput again.       *)
(* history takes the results in the order they were returned.              *)
(***************************************************************************)
MaxTokens == 3

MaxApplications == 2

\* the pieces the inputs are put together from
Tokens ==
    { <<"<">>, <<">">>, <<" ">>, <<"a">>, <<"=">>,
      <<"j","a","v","a">>, <<"s","c","r","i","p","t",":">>,
      JavascriptScheme, <<"J","a","v","a","S","c","r","i","p","t",":">>,
      <<"o">>, <<"o","n">>, <<"O","N">>, <<"n","c","l","i","c","k","=">>,
      <<"x","=">> }

RECURSIVE Concat(_)
Concat(pieces) ==
    IF pieces = <<>> THEN <<>> ELSE Head(pieces) \o Concat(Tail(pieces))

ShortInputs ==
    {Str(Concat(pieces)) : pieces \in UNION {[1..n -> Tokens] : n \in 0..MaxTokens}}

\* inputs around the limit of 1000 characters
LongInputs ==
    { Str(Rep("a", SanitizeMaxLen)),
      Str(Rep("a", SanitizeMaxLen + 1)),
      Str(<<"<">> \o Rep("a", SanitizeMaxLen + 1)),
      Str(Rep("a", SanitizeMaxLen - 1) \o <<" ", "b">>),
      Str(Rep("a", SanitizeMaxLen - 1) \o <<"<", ">", "b">>) }

SanitizerInputs == ShortInputs \cup LongInputs \cup {NullValue, FileValue}

SanitizerClient(input) == [op |-> "sanitizeInput", input |-> input]

InitSanitize == Loaded /\ \E input \in SanitizerInputs : last = SanitizerClient(input)

\* sanitizeInput(input)
SanitizeFirst ==
    /\ history = <<>>
    /\ history' = <<sanitizeInput(last.input)>>
    /\ UNCHANGED <<polls, votes, nextPoll, rateLimitStore, now, calls, last>>

\* sanitizeInput of the string the call before returned
SanitizeAgain ==
    /\ history # <<>>
    /\ Len(history) < MaxApplications
    /\ history' = Append(history, sanitizeInput(Str(history[Len(history)])))
    /\ UNCHANGED <<polls, votes, nextPoll, rateLimitStore, now, calls, last>>

NextSanitize ==
    \/ SanitizeFirst
    \/ SanitizeAgain

SpecSanitize == InitSanitize /\ [][NextSanitize]_vars

\* C12: sanitizeInput is idempotent: sanitizeInput of a result of
\* sanitizeInput is that result.
SanitizeIdempotent ==
    \A i \in 1..Len(history) : i > 1 => history[i] = history[i - 1]

\* /javascript:/i or /on\w+=/i matches somewhere in s
HasScheme(s) == \E i \in 1..Len(s) : JsAt(s, i)

HasEventHandler(s) == \E i \in 1..Len(s) : OnAt(s, i) # 0

\* C13: the result of sanitizeInput has no "<" and no ">" and at most 1000
\* characters, and for an input that is no string it is the empty string.
SanitizedShape ==
    /\ \A i \in 1..Len(history) :
          /\ \A k \in 1..Len(history[i]) : history[i][k] \notin {"<", ">"}
          /\ Len(history[i]) <= 1000
    /\ (history # <<>> /\ last.input.t # "string") => history[1] = <<>>

\* An input of more than 1000 characters with a "<" came back as 1000
\* characters
LongInputCut ==
    /\ history # <<>>
    /\ last.input.t = "string"
    /\ Len(last.input.v) > 1000
    /\ \E k \in 1..Len(last.input.v) : last.input.v[k] = "<"
    /\ Len(history[1]) = 1000

\* C14: the result of sanitizeInput has no match of /javascript:/i and no
\* match of /on\w+=/i.
SanitizedHasNoScript ==
    \A i \in 1..Len(history) : ~HasScheme(history[i]) /\ ~HasEventHandler(history[i])

(***************************************************************************)
(* SpecIndex: votes with every kind of index on a poll that has two or     *)
(* three options, while its owner edits and deletes it                     *)
(***************************************************************************)
IndexVoters == {UserSession("u2"), AnonymousSession}

NextIndex ==
    \/ \E options \in {TwoOptions, ThreeOptions} :
          /\ polls = EmptyMap
          /\ createPoll(UserSession("u1"), FirstQuestion, options, FALSE)
          /\ UNCHANGED history
    \/ \E pollId \in KnownIds, options \in {TwoOptions, ThreeOptions} :
          /\ updatePoll(UserSession("u1"), pollId, FirstQuestion, options, FALSE)
          /\ UNCHANGED history
    \/ \E pollId \in KnownIds :
          deletePoll(UserSession("u1"), pollId, FALSE) /\ UNCHANGED history
    \/ \E session \in IndexVoters, pollId \in KnownIds, optionIndex \in SomeIndexes :
          /\ Counted(RateLimitUser(session)) < MaxCounted
          /\ submitVoteRead(1, session, pollId, optionIndex, FALSE)
          /\ UNCHANGED history
    \/ submitVoteRateLimit(1) /\ UNCHANGED history
    \/ submitVoteDuplicate(1) /\ UNCHANGED history
    \/ \E fault \in BOOLEAN : submitVoteInsert(1, fault) /\ UNCHANGED history

SpecIndex == Init /\ [][NextIndex]_vars

\* votes' is votes with one more row, for the option n
OneMoreVote(n) ==
    \E row \in DOMAIN votes' : row.option_index = n /\ votes' = BagAdd(votes, row)

\* What a step does to the votes table, by the index of the submitVote it
\* ends and the number of options that call read
OptionIndexStep ==
    /\ BagSize(votes') > BagSize(votes)
       => (/\ last'.op = "submitVote"
           /\ last'.who.optionIndex.t = "number"
           /\ last'.who.optionIndex.int
           /\ last'.who.optionIndex.v >= 0
           /\ last'.who.optionIndex.v < last'.who.optionCount
           /\ OneMoreVote(last'.who.optionIndex.v))
    /\ (/\ last'.op = "submitVote"
        /\ last'.who.optionCount >= 0
        /\ last'.who.optionIndex = NumberValue(last'.who.optionCount))
       => (last'.result = Return(InvalidOption) /\ last'.rows = 0 /\ votes' = votes)
    /\ \A s \in Slots :
          (/\ calls[s].pc # "idle" /\ calls'[s].pc = "idle"
           /\ calls[s].optionIndex = NumberValue(calls[s].read - 1)
           /\ calls[s].pollId.v \in DOMAIN polls
           /\ last'.rl = "allowed"
           /\ ~last'.fault
           /\ \/ calls[s].session.user = NoUser
              \/ VotesOf(votes, calls[s].pollId.v, calls[s].session.user) = 0)
          => (/\ last'.result = Return(NoError)
              /\ last'.rows = 1
              /\ OneMoreVote(calls[s].read - 1))

\* C15: submitVote inserts a vote only for an integer index from 0 up to, not
\* including, the number of options of the poll as the call read it; the
\* index that equals that number returns the invalid-index error and inserts
\* nothing; the index one below it, with the poll in the Store, the rate
\* limiter allowing and no earlier vote of the caller, returns success and
\* inserts exactly one vote with that index.
OptionIndexChecked == [][OptionIndexStep]_vars

\* A vote for the last of three options is in the Store, and a vote for index
\* 3 on a poll read with three options got the invalid-index error
LastIndexVoted ==
    /\ \E row \in DOMAIN votes : row.option_index = 2
    /\ last.op = "submitVote"
    /\ last.who.optionCount = 3
    /\ last.who.optionIndex = NumberValue(3)
    /\ last.result = Return(InvalidOption)

(***************************************************************************)
(* SpecCreate: createPoll of every kind of caller, with forms that pass    *)
(* and forms that do not; history holds the form of the last call          *)
(***************************************************************************)
CreateForms ==
    {Form(FirstQuestion, TwoOptions),
     Form(TaggedQuestion, Options(OptionsMax)),
     Form(PaddedQuestion, TwoOptions),
     Form(SecondQuestion, <<Str(<<"x">>), Str(<<>>), NullValue, Str(<<"y">>)>>),
     Form(SecondQuestion, <<Str(<<" ", "y", " ">>), Str(<<"<", "x", ">">>), Str(<<"z">>)>>),
     Form(FirstQuestion, <<Str(<<"x">>)>>),
     Form(FirstQuestion, <<Str(<<"x">>), BlankOption>>)}

\* history takes the caller and the form of the call
RecordForm(session, form) ==
    history' = <<[session |-> session, question |-> form.question,
                  options |-> form.options]>>

NextCreate ==
    \/ \E session \in Voters, form \in CreateForms, fault \in BOOLEAN :
          /\ Counted(session.user) < MaxCounted
          /\ createPoll(session, form.question, form.options, fault)
          /\ RecordForm(session, form)
    \/ \E session \in {AnonymousSession, FailedSession}, form \in CreateForms :
          /\ createPoll(session, form.question, form.options, FALSE)
          /\ RecordForm(session, form)

SpecCreate == Init /\ [][NextCreate]_vars

\* The input is valid: a question of 3 to 500 characters that keeps at least
\* 3 when sanitized, and 2 to 10 options, each a string of at most 200
\* characters that is not blank
ValidInput(question, options) ==
    LET kept == SelectSeq(options, Truthy)
    IN  /\ question.t = "string"
        /\ Len(question.v) >= 3
        /\ Len(question.v) <= 500
        /\ Len(sanitizeInput(question)) >= 3
        /\ Len(kept) >= 2
        /\ Len(kept) <= 10
        /\ \A i \in 1..Len(kept) :
              /\ kept[i].t = "string"
              /\ Len(kept[i].v) <= 200
              /\ Trim(kept[i].v) # <<>>

\* polls' is polls with one more row, of this owner, question and options
OneMorePoll(owner, question, options) ==
    \E id \in DOMAIN polls' :
        /\ id \notin DOMAIN polls
        /\ DOMAIN polls' = DOMAIN polls \cup {id}
        /\ \A other \in DOMAIN polls : polls'[other] = polls[other]
        /\ polls'[id].user_id = owner
        /\ polls'[id].question = question
        /\ polls'[id].options = options

\* A createPoll with valid input
CreateStep ==
    (/\ last'.op = "createPoll"
     /\ history' # <<>>
     /\ ValidInput(history'[1].question, history'[1].options))
    => LET call == history'[1]
           kept == SelectSeq(call.options, Truthy)
       IN  /\ call.session = AnonymousSession
              => (/\ last'.result = Return(LoginToCreate)
                  /\ last'.rows = 0
                  /\ polls' = polls
                  /\ votes' = votes)
           /\ (/\ ~call.session.error
               /\ call.session.user # NoUser
               /\ last'.rl = "allowed"
               /\ ~last'.fault)
              => (/\ last'.result = Return(NoError)
                  /\ last'.rows = 1
                  /\ votes' = votes
                  /\ OneMorePoll(call.session.user, sanitizeInput(call.question),
                                 [i \in 1..Len(kept) |-> sanitizeInput(kept[i])]))

\* C16: createPoll with valid input returns the unauthenticated error and
\* writes nothing for an anonymous actor; for an authenticated actor the rate
\* limiter allows it inserts exactly one poll, owned by the actor, with the
\* sanitized question and the sanitized options in the order they came (the
\* Store answering the insert).
CreateWritesSanitized == [][CreateStep]_vars

\* u2 created a poll from options that sanitizing changes, and then an
\* anonymous createPoll with valid input returned the login error
AnonymousCreateReturned ==
    /\ \E id \in DOMAIN polls :
          /\ polls[id].user_id = "u2"
          /\ polls[id].options = <<<<"y">>, <<"x">>, <<"z">>>>
    /\ last.op = "createPoll"
    /\ last.result = Return(LoginToCreate)
    /\ history # <<>>
    /\ history[1].session = AnonymousSession
    /\ ValidInput(history[1].question, history[1].options)

\* What a step leaves alone: the owner and the creation instant of every poll
\* that stays, and for an updatePoll the votes, the set of polls and every
\* poll but the one of the caller that the id names
UpdateScopeStep ==
    /\ \A id \in DOMAIN polls \cap DOMAIN polls' :
          /\ polls'[id].user_id = polls[id].user_id
          /\ polls'[id].created_at = polls[id].created_at
    /\ \A id \in DOMAIN polls' \ DOMAIN polls :
          last'.op = "createPoll" /\ id = PollId(nextPoll') /\ nextPoll' = nextPoll + 1
    /\ last'.op = "updatePoll"
       => (/\ votes' = votes
           /\ DOMAIN polls' = DOMAIN polls
           /\ \A id \in DOMAIN polls :
                 (~last'.who.owned \/ id # last'.who.target) => polls'[id] = polls[id])

\* C17: no step changes the owner of a poll or gives an id of the Store a
\* second time, and an updatePoll changes nothing but the question and the
\* options of the caller's poll that the id names: every other poll and every
\* vote stay as they were.
UpdateTouchesOnePoll == [][UpdateScopeStep]_vars

\* With two polls of one owner and a vote in the Store, an updatePoll of the
\* owner changed one poll
OwnPollUpdated ==
    /\ \E a, b \in DOMAIN polls :
          /\ a # b
          /\ polls[a].user_id = polls[b].user_id
          /\ polls[a].question # polls[b].question
    /\ votes # EmptyMap
    /\ last.op = "updatePoll"
    /\ last.rows = 1

\* the messages of the Store
StoreTexts == {StoreFaultText, StoreCheckText, StoreForeignText}

\* C18: a deletePoll or updatePoll to which the Store reported an error does
\* not return the Store's message.
StoreErrorIsGeneric ==
    last.op \in {"deletePoll", "updatePoll"} => last.result.error \notin StoreTexts

(***************************************************************************)
(* SpecList: getUserPolls of every kind of caller, on polls of two owners  *)
(* created at the same and at different instants; history holds the        *)
(* session of the last getUserPolls                                        *)
(***************************************************************************)
ListInstants == {1, 2}

NextList ==
    \/ \E session \in Voters :
          createPoll(session, FirstQuestion, TwoOptions, FALSE) /\ UNCHANGED history
    \/ \E session \in Voters, pollId \in KnownIds :
          deletePoll(session, pollId, FALSE) /\ UNCHANGED history
    \/ \E t \in ListInstants : Advance(t) /\ UNCHANGED history
    \/ \E session \in Sessions, fault \in BOOLEAN :
          getUserPolls(session, fault) /\ history' = <<session>>

SpecList == Init /\ [][NextList]_vars

\* C19: getUserPolls returns the empty list and the not-authenticated error
\* to an anonymous caller, and to an authenticated caller, when the Store
\* answers, exactly the polls the caller owns, each once, newest first.
UserPollsListed ==
    (last.op = "getUserPolls" /\ history # <<>>)
    => LET actor == history[1]
           rows  == last.result.polls
       IN  /\ actor.user = NoUser
              => (rows = <<>> /\ last.result.error = NotAuthenticated)
           /\ (actor.user # NoUser /\ ~last.fault)
              => (/\ last.result.error = NoError
                  /\ {rows[i].id : i \in 1..Len(rows)}
                        = {p \in DOMAIN polls : polls[p].user_id = actor.user}
                  /\ \A i, j \in 1..Len(rows) : i # j => rows[i].id # rows[j].id
                  /\ \A i \in 1..Len(rows) :
                        /\ rows[i].user_id = actor.user
                        /\ rows[i].question = polls[rows[i].id].question
                        /\ rows[i].options = polls[rows[i].id].options
                        /\ rows[i].created_at = polls[rows[i].id].created_at
                  /\ \A i, j \in 1..Len(rows) :
                        i < j => rows[i].created_at >= rows[j].created_at)

\* A caller got a list of two polls created at different instants
NewestListedFirst ==
    /\ last.op = "getUserPolls"
    /\ Len(last.result.polls) = 2
    /\ last.result.polls[1].created_at > last.result.polls[2].created_at

(***************************************************************************)
(* SpecId: the actions that take a poll id, called one at a time with ids  *)
(* of every kind; history holds the id of the last call                    *)
(***************************************************************************)
IdInputs ==
    {Str(PollId(1)),
     Str(<<"a", "b", "c", "-", "1", "2", "3", "_", "X", "Y", "Z">>),
     Str(Rep("a", PollIdMaxLen)),
     Str(Rep("a", PollIdMaxLen + 1)),
     Str(<<>>),
     Str(<<"a", "b", "c", "/", "1", "2", "3">>),
     Str(<<"p", " ">>),
     Str(<<"p", "1", "\n">>),
     NullValue,
     FileValue}

IdCallers == {UserSession("u1"), AnonymousSession}

NextId ==
    \/ Sequential /\ createPoll(UserSession("u1"), FirstQuestion, TwoOptions, FALSE)
                  /\ UNCHANGED history
    \/ \E session \in IdCallers, pollId \in IdInputs :
          /\ Sequential
          /\ updatePoll(session, pollId, SecondQuestion, ThreeOptions, FALSE)
          /\ history' = <<pollId>>
    \/ \E session \in IdCallers, pollId \in IdInputs :
          Sequential /\ deletePoll(session, pollId, FALSE) /\ history' = <<pollId>>
    \/ \E session \in IdCallers, pollId \in IdInputs :
          /\ Sequential
          /\ Counted(RateLimitUser(session)) < MaxCounted
          /\ submitVoteRead(1, session, pollId, NumberValue(0), FALSE)
          /\ history' = <<pollId>>
    \/ submitVoteRateLimit(1) /\ UNCHANGED history
    \/ submitVoteDuplicate(1) /\ UNCHANGED history
    \/ submitVoteInsert(1, FALSE) /\ UNCHANGED history

SpecId == Init /\ [][NextId]_vars

\* a string of 1 to 50 characters, each a letter, a digit, "_" or "-"
WellFormedId(id) ==
    /\ id.t = "string"
    /\ Len(id.v) >= 1
    /\ Len(id.v) <= 50
    /\ \A i \in 1..Len(id.v) :
          id.v[i] \in Range(LowerCase) \cup Range(UpperCase) \cup Digits \cup {"_", "-"}

\* A submitVote, updatePoll or deletePoll returns
PollIdStep ==
    (/\ last'.op \in {"submitVote", "updatePoll", "deletePoll"}
     /\ history' # <<>>)
    => (/\ last'.who.validId <=> WellFormedId(history'[1])
        /\ (/\ ~WellFormedId(history'[1])
            /\ last'.op = "deletePoll" => last'.who.authed)
           => (/\ last'.result = Return(InvalidPollId)
               /\ polls' = polls
               /\ votes' = votes
               /\ rateLimitStore' = rateLimitStore
               /\ calls' = calls))

RecordCreateChecked(session) ==
    history' = IF last'.rl = "none" THEN history
               ELSE Append(history,
                           Event(IF last'.rl = "allowed" THEN "passed" ELSE "refused",
                                 "createPoll", session.user, <<>>, now))

\* remembers what checkRateLimit answered to the submitVote of slot s
RecordVoteChecked(s) ==
    history' = Append(history,
                      Event(IF calls'[s].pc # "idle" THEN "passed" ELSE "refused",
                            "submitVote", calls[s].session.user, calls[s].pollId.v, now))

NextShare ==
    \/ \E fault \in BOOLEAN :
          /\ Sequential
          /\ Len(history) < MaxChecks
          /\ createPoll(UserSession("u1"), FirstQuestion, TwoOptions, fault)
          /\ RecordCreateChecked(UserSession("u1"))
    \/ \E pollId \in KnownIds :
          /\ Sequential
          /\ Len(history) < MaxChecks
          /\ submitVoteRead(1, UserSession("u1"), pollId, NumberValue(0), FALSE)
          /\ UNCHANGED history
    \/ submitVoteRateLimit(1) /\ RecordVoteChecked(1)
    \/ submitVoteDuplicate(1) /\ UNCHANGED history
    \/ submitVoteInsert(1, FALSE) /\ UNCHANGED history
    \/ \E t \in QuotaInstants : Advance(t) /\ UNCHANGED history

SpecShare == Init /\ [][NextShare]_vars

\* the limit of the server action
QuotaOf(op) == IF op = "createPoll" THEN RATE_LIMITS.CREATE_POLL ELSE RATE_LIMITS.VOTE

\* the checks of the same server action and user that were allowed before the
\* i-th one, within one window length before it
AllowedBefore(i) ==
    {j \in 1..(i - 1) :
        /\ history[j].what = "passed"
        /\ history[j].op = history[i].op
        /\ history[j].user = history[i].user
        /\ history[j].at > history[i].at - QuotaOf(history[i].op).windowMs}

\* C21: a createPoll is refused as rate limited only after 10 createPoll
\* checks of the user were allowed in the window, and a submitVote only after
\* 5 vote checks of the user were: the two limits are counted apart.
SeparateQuotas ==
    \A i \in 1..Len(history) :
        history[i].what = "refused"
        => Cardinality(AllowedBefore(i)) >= QuotaOf(history[i].op).maxRequests

(***************************************************************************)
(* SpecBurst: submitVote calls of one user, one at a time until one        *)
(* request remains in the window and at the same time from then on;        *)
(* history takes every answer of checkRateLimit, with the count of the     *)
(* window and the other calls that stood before checkRateLimit then        *)
(***************************************************************************)
RecordRace(s) ==
    history' = Append(history,
                      [slot    |-> s,
                       allowed |-> calls'[s].pc # "idle",
                       counted |-> Counted(RateLimitUser(calls[s].session)),
                       others  |-> {o \in Slots \ {s} : calls[o].pc = "rateLimit"}])

NextBurst ==
    \/ Sequential /\ createPoll(UserSession("u2"), FirstQuestion, TwoOptions, FALSE)
                  /\ UNCHANGED history
    \/ \E s \in Slots :
          /\ Len(history) + Cardinality(InFlight) < MaxChecks
          /\ Sequential \/ Counted("u1") = RATE_LIMITS.VOTE.maxRequests - 1
          /\ submitVoteRead(s, UserSession("u1"), Str(PollId(1)), NumberValue(0), FALSE)
          /\ UNCHANGED history
    \/ \E s \in Slots : submitVoteRateLimit(s) /\ RecordRace(s)
    \/ \E s \in Slots : submitVoteDuplicate(s) /\ UNCHANGED history
    \/ \E s \in Slots : submitVoteInsert(s, TRUE) /\ UNCHANGED history

SpecBurst == Init /\ [][NextBurst]_vars

\* the i-th and the j-th answer are those of two calls that stood before
\* checkRateLimit together when exactly one request remained in the window
Raced(i, j) ==
    /\ i < j
    /\ history[i].counted = RATE_LIMITS.VOTE.maxRequests - 1
    /\ history[j].slot \in history[i].others
    /\ \A k \in (i + 1)..(j - 1) : history[k].slot # history[j].slot

\* C22 as stated: of two checkRateLimit calls for one key that start
\* together with one request remaining, both are allowed.
RaceAllowsBoth ==
    \A i, j \in 1..Len(history) :
        Raced(i, j) => (history[i].allowed /\ history[j].allowed)

\* C22: of two checkRateLimit calls for one key that start together with one
\* request remaining, the first to run is allowed and the other is refused,
\* and no more than maxRequests checks are allowed in the window
\* (checkRateLimit holds no await: each call runs as one step).
RaceAllowsOne ==
    /\ \A i, j \in 1..Len(history) :
          Raced(i, j) => (history[i].allowed /\ ~history[j].allowed)
    /\ Cardinality({i \in 1..Len(history) : history[i].allowed})
          <= RATE_LIMITS.VOTE.maxRequests

\* Two calls that stood before checkRateLimit together with one request
\* remaining have both been answered
RaceAnswered == \E i, j \in 1..Len(history) : Raced(i, j)

(***************************************************************************)
(* SpecOrder: votes, one at a time, that fail several checks at once;      *)
(* history holds the arguments of the last submitVote                      *)
(***************************************************************************)
OrderIds == {Str(PollId(1)), Str(PollId(2)), Str(<<"p", "/">>)}

OrderIndexes == {NumberValue(-1), NumberValue(0), NumberValue(2), FractionValue(0)}

OrderVoters == {UserSession("u1"), AnonymousSession}

NextOrder ==
    \/ /\ Sequential
       /\ polls = EmptyMap
       /\ createPoll(UserSession("u2"), FirstQuestion, TwoOptions, FALSE)
       /\ UNCHANGED history
    \/ \E session \in OrderVoters, pollId \in OrderIds, optionIndex \in OrderIndexes :
          /\ Sequential
          /\ submitVoteRead(1, session, pollId, optionIndex, FALSE)
          /\ history' = <<[session |-> session, pollId |-> pollId,
                           optionIndex |-> optionIndex]>>
    \/ submitVoteRateLimit(1) /\ UNCHANGED history
    \/ submitVoteDuplicate(1) /\ UNCHANGED history
    \/ \E fault \in BOOLEAN : submitVoteInsert(1, fault) /\ UNCHANGED history

SpecOrder == Init /\ [][NextOrder]_vars

\* the first of the checks on the arguments and on the poll that fails, or
\* NoError
ArgumentFailure(pollId, optionIndex) ==
    IF ~WellFormedId(pollId) THEN InvalidPollId
    ELSE IF optionIndex.t # "number" \/ ~optionIndex.int \/ optionIndex.v < 0
         THEN InvalidOptionIndex
    ELSE IF pollId.v \notin DOMAIN polls THEN PollNotFound
    ELSE IF optionIndex.v >= Len(polls[pollId.v].options) THEN InvalidOption
    ELSE NoError

\* the window of the actor is open and full
VoteLimitReached(user) ==
    /\ RateLimitKey(user, "") \in DOMAIN rateLimitStore
    /\ now <= rateLimitStore[RateLimitKey(user, "")].resetTime
    /\ rateLimitStore[RateLimitKey(user, "")].count >= RATE_LIMITS.VOTE.maxRequests

\* What a step of the submitVote in slot 1 returns, by the checks that are
\* left to it
CheckOrderStep ==
    LET c == calls[1]
    IN  /\ (c.pc = "idle" /\ history' # <<>> /\ (calls'[1].pc # "idle" \/ last'.op = "submitVote"))
           => LET failure == ArgumentFailure(history'[1].pollId, history'[1].optionIndex)
              IN  IF failure = NoError THEN calls'[1].pc = "rateLimit"
                  ELSE calls'[1].pc = "idle" /\ last'.result = Return(failure)
        /\ (c.pc = "rateLimit" /\ calls'[1].pc # "rateLimit")
           => IF VoteLimitReached(RateLimitUser(c.session))
              THEN calls'[1].pc = "idle" /\ last'.result = Return(VoteRateLimited)
              ELSE calls'[1].pc \in {"duplicate", "insert"}
        /\ (c.pc = "duplicate" /\ calls'[1].pc # "duplicate")
           => IF VotesOf(votes, c.pollId.v, c.session.user) >= 1
              THEN calls'[1].pc = "idle" /\ last'.result = Return(AlreadyVoted)
              ELSE calls'[1].pc = "insert"
        /\ (c.pc = "insert" /\ calls'[1].pc = "idle")
           => (/\ c.session.user # NoUser => VotesOf(votes, c.pollId.v, c.session.user) = 0
               /\ last'.result \in {Return(NoError), Return(StoreFaultText)}
               /\ last'.result = Return(StoreFaultText) <=> last'.fault)

\* C23: submitVote returns the error of the first check that fails, in the
\* order: poll id, index not a non-negative integer, poll not found, index
\* not below the number of options, rate limit, duplicate vote, insert.
ChecksInOrder == [][CheckOrderStep]_vars

\* A vote of an actor who has voted on the poll and whose window is full got
\* the rate-limit error, and the Store holds a poll
LimitedBeforeDuplicate ==
    /\ history # <<>>
    /\ history[1].session.user # NoUser
    /\ history[1].pollId.v \in DOMAIN polls
    /\ VotesOf(votes, history[1].pollId.v, history[1].session.user) = 1
    /\ last.op = "submitVote"
    /\ last.result = Return(VoteRateLimited)

(***************************************************************************)
(* SpecAnon: votes of callers without a user, on several polls, as time    *)
(* passes; history takes every answer of checkRateLimit                    *)
(***************************************************************************)
\* a caller without a session on the first poll, and one whose getUser fails
\* on the second
AnonymousCalls ==
    {[session |-> AnonymousSession, pollId |-> Str(PollId(1))],
     [session |-> FailedSession, pollId |-> Str(PollId(2))]}

NextAnon ==
    \/ Sequential /\ createPoll(UserSession("u1"), FirstQuestion, TwoOptions, FALSE)
                  /\ UNCHANGED history
    \/ \E call \in AnonymousCalls :
          /\ Sequential
          /\ Len(history) <= RATE_LIMITS.VOTE.maxRequests
          /\ submitVoteRead(1, call.session, call.pollId, NumberValue(0), FALSE)
          /\ UNCHANGED history
    \/ submitVoteRateLimit(1) /\ RecordVoteChecked(1)
    \* no user: the call goes from checkRateLimit to the insert
    \/ \E fault \in BOOLEAN : submitVoteInsert(1, fault) /\ UNCHANGED history
    \/ \E t \in QuotaInstants : Advance(t) /\ UNCHANGED history

SpecAnon == Init /\ [][NextAnon]_vars

\* the checks of callers without a user that were allowed in the window of
\* the shared key that is open now
AnonymousAllowed ==
    LET key == RateLimitKey("", "")
    IN  IF key \in DOMAIN rateLimitStore /\ now <= rateLimitStore[key].resetTime
        THEN {j \in 1..Len(history) :
                /\ history[j].what = "passed"
                /\ history[j].user = NoUser
                /\ history[j].at >= rateLimitStore[key].resetTime - RATE_LIMITS.VOTE.windowMs}
        ELSE {}

\* A step of a submitVote of a caller without a user
AnonymousStep ==
    /\ (calls[1].pc = "rateLimit" /\ calls[1].session.user = NoUser
        /\ calls'[1].pc # "rateLimit"
        /\ Cardinality(AnonymousAllowed) >= 5)
       => (calls'[1].pc = "idle" /\ last'.result = Return(VoteRateLimited)
           /\ votes' = votes)
    /\ (calls[1].pc # "idle" /\ calls[1].session.user = NoUser /\ calls'[1].pc = "idle")
       => last'.result # Return(AlreadyVoted)

MaxKeyChecks == 4

KeyUsers == {"u1", "u2"}

KeyConfigs == {[windowMs |-> 2, maxRequests |-> 1], RATE_LIMITS.VOTE}

KeyInstants == {1, 3, 300000, 300002, 300003}

\* what checkRateLimit returns
Answer(r) == [allowed |-> r.allowed, remaining |-> r.remaining, resetTime |-> r.resetTime]

NoAnswer == [allowed |-> FALSE, remaining |-> -1, resetTime |-> -1]

InitKeys ==
    /\ polls = EmptyMap
    /\ votes = EmptyMap
    /\ nextPoll = 0
    /\ rateLimitStore = EmptyMap
    /\ now = 0
    /\ calls = [s \in Slots |-> Idle]
    /\ last = [op |-> "checkRateLimit", unswept |-> EmptyMap]
    /\ history = [alone |-> EmptyMap, n |-> 0, user |-> "",
                  answer |-> [result |-> NoAnswer, unswept |-> NoAnswer, alone |-> NoAnswer]]

\* one call checkRateLimit(user, "", config)
KeyCheck(user, config) ==
    LET r       == checkRateLimit(rateLimitStore, now, user, "", config)
        unswept == checkRateLimit(last.unswept, now, user, "", config)
        alone   == checkRateLimit(history.alone, now, user, "", config)
    IN  /\ history.n < MaxKeyChecks
        /\ rateLimitStore' = r.store
        /\ last' = [last EXCEPT !.unswept = unswept.store]
        /\ history' = [alone  |-> IF user = "u1" THEN history.alone ELSE alone.store,
                       n      |-> history.n + 1,
                       user   |-> user,
                       answer |-> [result  |-> Answer(r),
                                   unswept |-> Answer(unswept),
                                   alone   |-> IF user = "u1" THEN NoAnswer
                                               ELSE Answer(alone)]]
        /\ UNCHANGED <<polls, votes, nextPoll, now, calls>>

\* the cleanup timer fires
KeySweep ==
    /\ cleanup
    /\ history' = [history EXCEPT !.alone = CleanupExpired(history.alone, now)]

NextKeys ==
    \/ \E user \in KeyUsers, config \in KeyConfigs : KeyCheck(user, config)
    \/ \E t \in KeyInstants : Advance(t) /\ UNCHANGED history
    \/ KeySweep

SpecKeys == InitKeys /\ [][NextKeys]_vars

\* A call that checkRateLimit refuses
RefusedStep ==
    (history'.n = history.n + 1 /\ ~history'.answer.result.allowed)
    => (rateLimitStore' = rateLimitStore /\ history'.answer.result.remaining = 0)

\* C25: a call that checkRateLimit refuses leaves the map as it was, for the
\* key of the call and for every other key, and returns remaining = 0
\* (maxRequests at least 1, as in every config of RATE_LIMITS).
RefusedLeavesMap == [][RefusedStep]_vars

\* A call was refused while the map held the windows of two keys
RefusedWithTwoKeys ==
    /\ history.n > 0
    /\ ~history.answer.result.allowed
    /\ Cardinality(DOMAIN rateLimitStore) = 2

\* A sweep, and a call after sweeps
SweepStep ==
    /\ (now' = now /\ history'.n = history.n)
       => rateLimitStore' =
             [k \in {j \in DOMAIN rateLimitStore : now <= rateLimitStore[j].resetTime}
                 |-> rateLimitStore[k]]
    /\ history'.n = history.n + 1
       => history'.answer.result = history'.answer.unswept

\* C26: the sweep removes the windows whose resetTime is before now and no
\* other, and every checkRateLimit call returns what it would have returned
\* had no sweep ever run.
SweepIsTransparent == [][SweepStep]_vars

\* A sweep has removed a window that the map without sweeps still holds,
\* and the last call, in a window that ends after the timer's first instant,
\* was refused
SweptAndAnswered ==
    /\ history.n > 0
    /\ \E k \in DOMAIN last.unswept : k \notin DOMAIN rateLimitStore
    /\ history.answer.result.resetTime > CleanupIntervalMs
    /\ ~history.answer.result.allowed

\* A call for a user other than "u1", and a call for "u1"
IndependentStep ==
    LET other == RateLimitKey("u2", "")
    IN  /\ (history'.n = history.n + 1 /\ history'.user # "u1")
           => history'.answer.result = history'.answer.alone
        /\ (history'.n = history.n + 1 /\ history'.user = "u1")
           => /\ (other \in DOMAIN rateLimitStore') = (other \in DOMAIN rateLimitStore)
              /\ other \in DOMAIN rateLimitStore
                 => rateLimitStore'[other] = rateLimitStore[other]

MaxFields == 11

\* what a keystroke leaves in a field
FieldValues == {<<>>, <<"a">>}

\* useState(["", ""])
InitFields == Loaded /\ last = [op |-> "PollCreateForm", options |-> <<<<>>, <<>>>>]

\* opts.map((opt, i) => (i === idx ? value : opt))
handleOptionChange(idx, value) ==
    /\ last' = [last EXCEPT !.options = [i \in 1..Len(last.options) |->
                                            IF i = idx THEN value ELSE last.options[i]]]
    /\ UNCHANGED <<polls, votes, nextPoll, rateLimitStore, now, calls, history>>

\* [...opts, ""]
addOption ==
    /\ Len(last.options) < MaxFields
    /\ last' = [last EXCEPT !.options = Append(last.options, <<>>)]
    /\ UNCHANGED <<polls, votes, nextPoll, rateLimitStore, now, calls, history>>

\* if (options.length > 2) opts.filter((_, i) => i !== idx)
removeOption(idx) ==
    /\ last' = IF Len(last.options) > 2
               THEN [last EXCEPT !.options = [i \in 1..(Len(last.options) - 1) |->
                                                 IF i < idx THEN last.options[i]
                                                 ELSE last.options[i + 1]]]
               ELSE last
    /\ UNCHANGED <<polls, votes, nextPoll, rateLimitStore, now, calls, history>>

NextFields ==
    \/ \E idx \in 1..Len(last.options), value \in FieldValues :
          handleOptionChange(idx, value)
    \/ addOption
    \/ \E idx \in 1..Len(last.options) : removeOption(idx)

SpecFields == InitFields /\ [][NextFields]_vars

\* C27: addOption, removeOption and handleOptionChange keep the number of
\* option fields of PollCreateForm between 2 and 10.
OptionFieldsInRange == 2 <= Len(last.options) /\ Len(last.options) <= 10

(***************************************************************************)
(* getPollById                                                             *)
(***************************************************************************)
\* .select("*").eq("id", id).single(): the Store answers an error when the
\* request fails and when no row has the id
getPollById(id, fault) ==
    LET found  == ~fault /\ id.t = "string" /\ id.v \in DOMAIN polls
        result == IF found THEN ReturnPolls(<<PollRow(polls, id.v)>>, NoError)
                  ELSE ReturnPolls(<<>>, StoreFaultText)
    IN  /\ last' = Call("getPollById", Caller(AnonymousSession, id, FALSE, NoArgs),
                        result, "none", fault, 0)
        /\ UNCHANGED <<polls, votes, nextPoll, rateLimitStore, now, calls>>

(***************************************************************************)
(* SpecReach: every server action, called one at a time with arguments     *)
(* that pass its checks and arguments that do not; history holds the       *)
(* action of the step and, for createPoll, its caller and form             *)
(***************************************************************************)
ReachForms == {Form(FirstQuestion, TwoOptions), Form(FirstQuestion, <<Str(<<"x">>)>>)}

ReachIndexes == {NumberValue(-1), NumberValue(0), NumberValue(2)}

\* history takes the action of the step
RecordStep(op, session, form) ==
    history' = <<[op |-> op, session |-> session, question |-> form.question,
                  options |-> form.options]>>

NoForm == Form(NullValue, <<>>)

ReachCallers == {UserSession("u1"), AnonymousSession}

ReachIds == {Str(PollId(1)), Str(<<"p", "/">>)}

NextReach ==
    \/ \E session \in FormCallers, form \in ReachForms :
          /\ Sequential
          /\ Counted(RateLimitUser(session)) < MaxCounted
          /\ createPoll(session, form.question, form.options, FALSE)
          /\ RecordStep("createPoll", session, form)
    \/ \E session \in ReachCallers, pollId \in ReachIds :
          /\ Sequential
          /\ updatePoll(session, pollId, SecondQuestion, ThreeOptions, FALSE)
          /\ RecordStep("updatePoll", session, NoForm)
    \/ \E session \in ReachCallers, pollId \in ReachIds :
          /\ Sequential
          /\ deletePoll(session, pollId, FALSE)
          /\ RecordStep("deletePoll", session, NoForm)
    \/ \E pollId \in ReachIds, fault \in BOOLEAN :
          /\ Sequential
          /\ getPollById(pollId, fault)
          /\ RecordStep("getPollById", AnonymousSession, NoForm)
    \/ \E session \in ReachCallers, fault \in BOOLEAN :
          /\ Sequential
          /\ getUserPolls(session, fault)
          /\ RecordStep("getUserPolls", session, NoForm)
    \/ \E session \in ReachCallers, pollId \in OrderIds, optionIndex \in ReachIndexes :
          /\ Sequential
          /\ Counted(RateLimitUser(session)) < MaxCounted
          /\ submitVoteRead(1, session, pollId, optionIndex, FALSE)
          /\ RecordStep("submitVote", session, NoForm)
    \/ submitVoteRateLimit(1) /\ RecordStep("submitVote", calls[1].session, NoForm)
    \/ submitVoteDuplicate(1) /\ RecordStep("submitVote", calls[1].session, NoForm)
    \/ submitVoteInsert(1, FALSE) /\ RecordStep("submitVote", calls[1].session, NoForm)
    \/ Advance(RATE_LIMITS.VOTE.windowMs + 1) /\ RecordStep("clock", AnonymousSession, NoForm)

SpecReach == Init /\ [][NextReach]_vars

\* A step of a server action, by what the action was called with
ReachStep ==
    LET h == history'[1]
        c == calls[1]
    IN  /\ h.op \in {"updatePoll", "deletePoll", "getPollById", "getUserPolls"}
           => rateLimitStore' = rateLimitStore
        /\ (h.op = "createPoll"
              /\ (~Authenticated(h.session) \/ ~ValidInput(h.question, h.options)))
           => rateLimitStore' = rateLimitStore
        /\ (h.op = "submitVote" /\ last'.op = "submitVote"
              /\ last'.result.error \in
                    {InvalidPollId, InvalidOptionIndex, PollNotFound, InvalidOption})
           => rateLimitStore' = rateLimitStore
        /\ rateLimitStore' # rateLimitStore
           => \/ h.op = "createPoll"
              \/ /\ h.op = "submitVote"
                 /\ WellFormedId(c.pollId)
                 /\ c.optionIndex.t = "number"
                 /\ c.optionIndex.int
                 /\ c.optionIndex.v >= 0
                 /\ c.optionIndex.v < c.read

InRange(bag, table) ==
    \A row \in DOMAIN bag :
        row.poll_id \in DOMAIN table
        => /\ row.option_index >= 0
           /\ row.option_index < Len(table[row.poll_id].options)

\* C30: after any sequence of createPoll, updatePoll, deletePoll and
\* submitVote calls run one at a time, every stored vote whose poll exists has
\* an option index from 0 below the current number of options of that poll.
VotesInRange == InRange(votes, polls)

\* A step after which a stored vote may be out of range
RangeStep ==
    /\ (InRange(votes, polls) /\ last'.op # "updatePoll") => InRange(votes', polls')
    /\ (InRange(votes, polls) /\ ~InRange(votes', polls'))
       => /\ last'.rows = 1
          /\ last'.who.owned
          /\ votes' = votes
          /\ Len(polls'[last'.who.target].options) < Len(polls[last'.who.target].options)
          /\ \E row \in DOMAIN votes :
                /\ row.poll_id = last'.who.target
                /\ row.option_index >= Len(polls'[row.poll_id].options)

\* C30, amended: a vote is within the options the poll has when the vote is
\* stored, and a stored vote goes out of range only by an updatePoll of the
\* poll's owner that leaves the poll with fewer options.
VoteInRangeWhenStored == [][RangeStep]_vars

\* A vote for the last of three options was stored
LastOptionVoteStored ==
    /\ last.op = "submitVote"
    /\ last.rows = 1
    /\ last.who.optionIndex = NumberValue(2)
    /\ last.who.optionCount = 3
    /\ VotesInRange

=============================================================================
